---------------------------- MODULE Spec2Model ----------------------------
(***************************************************************************)
(* New Year countdown widget (src/script.js).                              *)
(*                                                                         *)
(* The page keeps two globals, targetDate and countdownInterval, and a     *)
(* handful of DOM fields.  Handlers run to completion, one at a time:      *)
(* DOMContentLoaded, the periodic interval callback, visibilitychange,     *)
(* keydown, the window error listener and its delayed restart, and the     *)
(* removal time-outs of the celebration fireworks.                         *)
(*                                                                         *)
(* Numbers.  A millisecond quantity is held as the pair (s, ms) with       *)
(* value s * 1000 + ms and 0 <= ms < 1000, because the values of the       *)
(* program (milliseconds since 1970, or to the next year) do not fit the   *)
(* 32-bit integers of the model checker, while their seconds do.  NaN is   *)
(* the same record with nan = TRUE.  Local time is taken without zone      *)
(* offset or daylight-saving shifts.                                       *)
(***************************************************************************)
EXTENDS Integers, Sequences, FiniteSets

(***************************************************************************)
(* Bounds of the model.                                                    *)
(***************************************************************************)
\* the calendar year the wall clock starts in
FirstYear == 2024
\* number of New Year boundaries after FirstYear the wall clock may cross
YearSpan == 1
\* setInterval calls a page lifetime may make in the model
MaxTimers == 2
\* error events whose restart time-out may be pending at once
MaxPendingRestarts == 1
\* firework elements the container may hold at once
MaxFireworks == 20
\* milliseconds that may pass between two clock reads of one handler
MaxHandlerMs == 1
\* the pure-function specification tries every whole second up to this one
MaxSmallSeconds == 130

(***************************************************************************)
(* Program constants.                                                      *)
(***************************************************************************)
MsPerSecond == 1000
SecondsPerMinute == 60
MinutesPerHour == 60
HoursPerDay == 24
PadWidth == 2
FireworksPerCelebration == 10

(***************************************************************************)
(* Millisecond quantities.                                                 *)
(***************************************************************************)
Ms(s, ms) == [nan |-> FALSE, s |-> s, ms |-> ms]

NaN == [nan |-> TRUE, s |-> 0, ms |-> 0]

\* a - b on millisecond quantities; NaN when either side is NaN
Minus(a, b) ==
    IF a.nan \/ b.nan THEN NaN
    ELSE IF a.ms >= b.ms THEN Ms(a.s - b.s, a.ms - b.ms)
    ELSE Ms(a.s - b.s - 1, a.ms - b.ms + MsPerSecond)

\* a + b on millisecond quantities
Plus(a, b) ==
    IF a.nan \/ b.nan THEN NaN
    ELSE IF a.ms + b.ms < MsPerSecond THEN Ms(a.s + b.s, a.ms + b.ms)
    ELSE Ms(a.s + b.s + 1, a.ms + b.ms - MsPerSecond)

\* a <= 0; every comparison with NaN is false
LeqZero(a) == ~a.nan /\ (a.s < 0 \/ (a.s = 0 /\ a.ms = 0))

\* a < 0
LtZero(a) == ~a.nan /\ a.s < 0

\* a >= b
Geq(a, b) == ~a.nan /\ ~b.nan /\ (a.s > b.s \/ (a.s = b.s /\ a.ms >= b.ms))

\* a > b
Gt(a, b) == Geq(a, b) /\ a # b

(***************************************************************************)
(* The host's Date: year arithmetic of ECMAScript (DayFromYear,            *)
(* TimeFromYear, YearFromTime), in seconds.                                *)
(***************************************************************************)
\* the one element of a one-element set
Only(S) == CHOOSE x \in S : TRUE

SecondsPerDay == HoursPerDay * MinutesPerHour * SecondsPerMinute

DayFromYear(y) ==
    365 * (y - 1970) + ((y - 1969) \div 4) - ((y - 1901) \div 100)
        + ((y - 1601) \div 400)

\* new Date(year, 0, 1, 0, 0, 0)
NewYearDate(year) == Ms(DayFromYear(year) * SecondsPerDay, 0)

CalendarYears == (FirstYear - 1)..(FirstYear + YearSpan + 2)

\* date.getFullYear(): the largest year whose first instant is not after date
getFullYear(date) ==
    CHOOSE y \in CalendarYears :
        /\ Geq(date, NewYearDate(y))
        /\ ~Geq(date, NewYearDate(y + 1))

(***************************************************************************)
(* Text: a string is a sequence of one-character strings.                  *)
(***************************************************************************)
DigitChar == <<"0", "1", "2", "3", "4", "5", "6", "7", "8", "9">>

NaNText == <<"N", "a", "N">>

\* the decimal digits of a non-negative integer
DecimalDigits[n \in Nat] ==
    IF n < 10 THEN <<DigitChar[n + 1]>>
    ELSE Append(DecimalDigits[n \div 10], DigitChar[(n % 10) + 1])

\* num.toString()
toString(n) == DecimalDigits[n]

RECURSIVE padStart(_, _, _)
padStart(str, width, fill) ==
    IF Len(str) >= width THEN str
    ELSE padStart(<<fill>> \o str, width, fill)


(***************************************************************************)
(* State.                                                                  *)
(***************************************************************************)
VARIABLES
    now,                  \* the wall clock, as new Date() reads it
    hidden,               \* document.hidden
    loaded,               \* DOMContentLoaded has been delivered
    pendingRestarts,      \* restart time-outs of the error listener not yet run
    targetDate,           \* global targetDate (NaN while unset)
    countdownInterval,    \* global countdownInterval (0 while unset)
    intervals,            \* handles of the registered periodic timers
    nextHandle,           \* the handle the next setInterval call returns
    targetYearText,       \* #target-year
    currentYearText,      \* #current-year
    daysText,             \* #days
    hoursText,            \* #hours
    minutesText,          \* #minutes
    secondsText,          \* #seconds
    containerDisplay,     \* .countdown-container style.display
    targetDateDisplay,    \* .target-date style.display
    celebrationShow,      \* #celebration carries the class "show"
    celebrationAnimation, \* #celebration style.animation
    fireworks,            \* firework elements added by a celebration, not yet removed
    tick,                 \* history: the updateCountdown call of the last step
    elapsedObserved,      \* history: a tick took the elapsed branch since initializeCountdown
    celebrated,           \* history: showCelebration ran since initializeCountdown
    calls,                \* history: the functions the last step ran, in order
    stage,                \* position of the pure-function runs ("page" otherwise)
    milliseconds,         \* pure-function runs: the argument of calculateTimeUnits
    timeUnits             \* pure-function runs: its result

vars ==
    <<now, hidden, loaded, pendingRestarts, targetDate, countdownInterval,
      intervals, nextHandle, targetYearText, currentYearText, daysText,
      hoursText, minutesText, secondsText, containerDisplay,
      targetDateDisplay, celebrationShow, celebrationAnimation, fireworks,
      tick, elapsedObserved, celebrated, calls, stage, milliseconds,
      timeUnits>>

NoUnits == [nan |-> FALSE, days |-> 0, hours |-> 0, minutes |-> 0, seconds |-> 0]

NoTick ==
    [called |-> FALSE, now |-> NaN, target |-> NaN, timeDifference |-> NaN,
     elapsed |-> FALSE, timeUnits |-> NoUnits, afterElapsed |-> FALSE,
     afterCelebration |-> FALSE]

\* the page as one record, the form the functions below transform
Page ==
    [targetDate |-> targetDate, countdownInterval |-> countdownInterval,
     intervals |-> intervals, nextHandle |-> nextHandle,
     targetYearText |-> targetYearText, currentYearText |-> currentYearText,
     daysText |-> daysText, hoursText |-> hoursText,
     minutesText |-> minutesText, secondsText |-> secondsText,
     containerDisplay |-> containerDisplay,
     targetDateDisplay |-> targetDateDisplay,
     celebrationShow |-> celebrationShow,
     celebrationAnimation |-> celebrationAnimation, fireworks |-> fireworks,
     tick |-> NoTick, elapsedObserved |-> elapsedObserved,
     celebrated |-> celebrated, calls |-> <<>>]

\* the page a script evaluation leaves: globals unset, markup untouched
FreshPage ==
    [targetDate |-> NaN, countdownInterval |-> 0, intervals |-> {},
     nextHandle |-> 1, targetYearText |-> <<>>, currentYearText |-> <<>>,
     daysText |-> <<>>, hoursText |-> <<>>, minutesText |-> <<>>,
     secondsText |-> <<>>, containerDisplay |-> "", targetDateDisplay |-> "",
     celebrationShow |-> FALSE, celebrationAnimation |-> "", fireworks |-> 0,
     tick |-> NoTick, elapsedObserved |-> FALSE, celebrated |-> FALSE,
     calls |-> <<>>]

(***************************************************************************)
(* The functions of script.js, as transformations of the page.             *)
(***************************************************************************)
\* a year selection that leaves out the + 1
TargetYearThisYear(date) == getFullYear(date)

\* the year selection of initializeCountdown: next year, assigned again when
\* date is not before this year's first instant
TargetYear(date) ==
    Only({LET targetYear == currentYear + 1
              newYearThisYear == NewYearDate(currentYear)
          IN  IF Geq(date, newYearThisYear) THEN currentYear + 1
              ELSE targetYear :
          currentYear \in {getFullYear(date)}})

\* an initialisation that also brings the countdown layout back
initializeCountdownRestoresView(P, date) ==
    LET targetYear == TargetYear(date)
    IN  [P EXCEPT !.targetDate = NewYearDate(targetYear),
                  !.targetYearText = toString(targetYear),
                  !.currentYearText = toString(targetYear),
                  !.containerDisplay = "",
                  !.targetDateDisplay = "",
                  !.celebrationShow = FALSE,
                  !.elapsedObserved = FALSE,
                  !.celebrated = FALSE,
                  !.calls = Append(@, "initializeCountdown")]

initializeCountdown(P, date) ==
    Only({[P EXCEPT !.targetDate = NewYearDate(targetYear),
                    !.targetYearText = toString(targetYear),
                    !.currentYearText = toString(targetYear),
                    !.elapsedObserved = FALSE,
                    !.celebrated = FALSE,
                    !.calls = Append(@, "initializeCountdown")] :
          targetYear \in {TargetYear(date)}})

\* clearInterval(handle): an unset or cancelled handle cancels nothing
clearInterval(timers, handle) == timers \ {handle}

addCelebrationFireworks(P) ==
    [P EXCEPT !.fireworks = @ + FireworksPerCelebration,
              !.calls = Append(@, "addCelebrationFireworks")]

\* a celebration that also unsets targetDate
showCelebrationUnsetsTarget(P) ==
    LET stopped ==
            [P EXCEPT !.intervals = clearInterval(@, P.countdownInterval),
                      !.targetDate = NaN,
                      !.containerDisplay = "none",
                      !.targetDateDisplay = "none",
                      !.celebrationShow = TRUE,
                      !.celebrated = TRUE,
                      !.calls = Append(@, "showCelebration")]
    IN  [addCelebrationFireworks(stopped) EXCEPT
            !.celebrationAnimation = "celebrationBounce 1s ease-out"]

\* a celebration that leaves the countdown layout displayed
showCelebrationKeepsCountdown(P) ==
    LET stopped ==
            [P EXCEPT !.intervals = clearInterval(@, P.countdownInterval),
                      !.celebrationShow = TRUE,
                      !.celebrated = TRUE,
                      !.calls = Append(@, "showCelebration")]
    IN  [addCelebrationFireworks(stopped) EXCEPT
            !.celebrationAnimation = "celebrationBounce 1s ease-out"]

showCelebration(P) ==
    LET stopped ==
            [P EXCEPT !.intervals = clearInterval(@, P.countdownInterval),
                      !.containerDisplay = "none",
                      !.targetDateDisplay = "none",
                      !.celebrationShow = TRUE,
                      !.celebrated = TRUE,
                      !.calls = Append(@, "showCelebration")]
    IN  [addCelebrationFireworks(stopped) EXCEPT
            !.celebrationAnimation = "celebrationBounce 1s ease-out"]

\* Math.round in place of Math.floor
RoundSeconds(ms) == IF ms.ms >= 500 THEN ms.s + 1 ELSE ms.s

\* Math.floor(milliseconds / 1000)
FloorSeconds(ms) == ms.s

\* hours returned without % 24
calculateTimeUnitsNoWrap(ms) ==
    LET seconds == ms.s
        minutes == seconds \div SecondsPerMinute
        hours == minutes \div MinutesPerHour
        days == hours \div HoursPerDay
    IN  [nan |-> ms.nan,
         days |-> days,
         hours |-> hours,
         minutes |-> minutes % MinutesPerHour,
         seconds |-> seconds % SecondsPerMinute]

\* days rounded to the nearest day instead of floored
calculateTimeUnitsRoundDays(ms) ==
    LET seconds == ms.s
        minutes == seconds \div SecondsPerMinute
        hours == minutes \div MinutesPerHour
        days == (hours + 12) \div HoursPerDay
    IN  [nan |-> ms.nan,
         days |-> days,
         hours |-> hours % HoursPerDay,
         minutes |-> minutes % MinutesPerHour,
         seconds |-> seconds % SecondsPerMinute]

calculateTimeUnits(ms) ==
    IF ms.nan
    THEN [nan |-> TRUE, days |-> 0, hours |-> 0, minutes |-> 0, seconds |-> 0]
    ELSE LET seconds == FloorSeconds(ms)
             minutes == seconds \div SecondsPerMinute
             hours == minutes \div MinutesPerHour
             days == hours \div HoursPerDay
         IN  [nan |-> FALSE,
              days |-> days,
              hours |-> hours % HoursPerDay,
              minutes |-> minutes % MinutesPerHour,
              seconds |-> seconds % SecondsPerMinute]

\* formatting without padStart
formatNumberUnpadded(num) == toString(num)

\* const formatNumber = (num) => num.toString().padStart(2, '0')
formatNumber(num) == padStart(toString(num), PadWidth, "0")

updateDisplay(P, units) ==
    IF units.nan
    THEN [P EXCEPT !.daysText = NaNText, !.hoursText = NaNText,
                   !.minutesText = NaNText, !.secondsText = NaNText,
                   !.calls = Append(@, "updateDisplay")]
    ELSE [P EXCEPT !.daysText = formatNumber(units.days),
                   !.hoursText = formatNumber(units.hours),
                   !.minutesText = formatNumber(units.minutes),
                   !.secondsText = formatNumber(units.seconds),
                   !.calls = Append(@, "updateDisplay")]

\* the test written with < in place of <=
HasElapsedStrict(timeDifference) == LtZero(timeDifference)

\* if (timeDifference <= 0)
HasElapsed(timeDifference) == LeqZero(timeDifference)

\* the subtraction with its operands exchanged
TimeDifferenceSwapped(target, date) == Minus(date, target)

\* const timeDifference = targetDate - now
TimeDifference(target, date) == Minus(target, date)

\* the body of updateCountdown once timeDifference and the time units are
\* computed
updateCountdownWith(P, date, timeDifference, units) ==
    LET elapsed == HasElapsed(timeDifference)
        entered ==
            [P EXCEPT !.tick =
                          [called |-> TRUE, now |-> date,
                           target |-> P.targetDate,
                           timeDifference |-> timeDifference,
                           elapsed |-> elapsed, timeUnits |-> units,
                           afterElapsed |-> P.elapsedObserved,
                           afterCelebration |-> P.celebrated],
                      !.elapsedObserved = @ \/ elapsed,
                      !.calls = Append(@, "updateCountdown")]
    IN  IF elapsed THEN showCelebration(entered)
        ELSE \* addNumberChangeEffect only pulses the numbers' scale for 100 ms
             [updateDisplay(entered, units) EXCEPT
                 !.calls = Append(@, "addNumberChangeEffect")]

\* function updateCountdown(): each intermediate value is computed once
updateCountdown(P, date) ==
    Only({Only({updateCountdownWith(P, date, timeDifference, units) :
                   units \in {IF HasElapsed(timeDifference) THEN NoUnits
                              ELSE calculateTimeUnits(timeDifference)}}) :
          timeDifference \in {TimeDifference(P.targetDate, date)}})

\* date is the clock as the immediate updateCountdown reads it
startCountdown(P, date) ==
    Only({LET handle == ticked.nextHandle
          IN  [ticked EXCEPT !.countdownInterval = handle,
                             !.intervals = @ \cup {handle},
                             !.nextHandle = handle + 1,
                             !.calls = Append(@, "setInterval")] :
          ticked \in
              {updateCountdown(
                   [P EXCEPT !.calls = Append(@, "startCountdown")], date)}})

(***************************************************************************)
(* The wall clock.  It only moves forward, and shows the instants around   *)
(* each modelled New Year boundary: 199 days 12 hours and 1 ms before it,  *)
(* the boundary itself, and 1 ms after it.                                 *)
(***************************************************************************)
BeforeNewYear == {Ms(0, 1), Ms(17236800, 0)}

AfterNewYear == {Ms(0, 0), Ms(0, 1)}

Instants ==
    UNION {{Plus(NewYearDate(y), d) : d \in AfterNewYear}
              \cup {Minus(NewYearDate(y), d) : d \in BeforeNewYear} :
           y \in (FirstYear + 1)..(FirstYear + YearSpan)}

\* the clock readings a handler that started at date may make before it ends
Later(date) ==
    {t \in Instants :
        /\ Geq(t, date)
        /\ Minus(t, date).s = 0
        /\ Minus(t, date).ms <= MaxHandlerMs}

(***************************************************************************)
(* Actions: one per handler, and the environment's clock.                  *)
(***************************************************************************)
\* the page becomes Q
Becomes(Q) ==
    /\ Q.fireworks <= MaxFireworks
    /\ Q.nextHandle <= MaxTimers + 1
    /\ targetDate' = Q.targetDate
    /\ countdownInterval' = Q.countdownInterval
    /\ intervals' = Q.intervals
    /\ nextHandle' = Q.nextHandle
    /\ targetYearText' = Q.targetYearText
    /\ currentYearText' = Q.currentYearText
    /\ daysText' = Q.daysText
    /\ hoursText' = Q.hoursText
    /\ minutesText' = Q.minutesText
    /\ secondsText' = Q.secondsText
    /\ containerDisplay' = Q.containerDisplay
    /\ targetDateDisplay' = Q.targetDateDisplay
    /\ celebrationShow' = Q.celebrationShow
    /\ celebrationAnimation' = Q.celebrationAnimation
    /\ fireworks' = Q.fireworks
    /\ tick' = Q.tick
    /\ elapsedObserved' = Q.elapsedObserved
    /\ celebrated' = Q.celebrated
    /\ calls' = Q.calls

PureUnchanged == UNCHANGED <<stage, milliseconds, timeUnits>>

\* document.addEventListener('DOMContentLoaded', ...)
DOMContentLoaded ==
    /\ stage = "page"
    /\ ~loaded
    /\ \E t \in Later(now) :
          /\ Becomes(startCountdown(initializeCountdown(Page, now), t))
          /\ now' = t
    /\ loaded' = TRUE
    /\ UNCHANGED <<hidden, pendingRestarts>>
    /\ PureUnchanged

\* the callback of setInterval(updateCountdown, 1000)
IntervalFire ==
    /\ stage = "page"
    /\ \E handle \in intervals : Becomes(updateCountdown(Page, now))
    /\ UNCHANGED <<now, hidden, loaded, pendingRestarts>>
    /\ PureUnchanged

\* a listener that refreshes when the page becomes hidden instead
VisibilityChangeInverted ==
    /\ stage = "page"
    /\ hidden' = ~hidden
    /\ IF ~hidden' THEN Becomes(Page)
       ELSE Becomes(updateCountdown(
                [Page EXCEPT !.calls = <<"visibilitychange">>], now))
    /\ UNCHANGED <<now, loaded, pendingRestarts>>
    /\ PureUnchanged

\* document.addEventListener('visibilitychange', ...)
VisibilityChange ==
    /\ stage = "page"
    /\ hidden' = ~hidden
    /\ IF hidden' THEN Becomes(Page)
       ELSE Becomes(updateCountdown(
                [Page EXCEPT !.calls = <<"visibilitychange">>], now))
    /\ UNCHANGED <<now, loaded, pendingRestarts>>
    /\ PureUnchanged

\* keydown with key ' ' and ctrlKey
KeydownCtrlSpace ==
    /\ stage = "page"
    /\ Becomes(showCelebration(Page))
    /\ UNCHANGED <<now, hidden, loaded, pendingRestarts>>
    /\ PureUnchanged

\* keydown with key 'r' or 'R': location.reload() ends the page's lifetime and
\* the script is evaluated anew
KeydownR ==
    /\ stage = "page"
    /\ Becomes([FreshPage EXCEPT !.calls = <<"location.reload">>])
    /\ loaded' = FALSE
    /\ pendingRestarts' = 0
    /\ UNCHANGED <<now, hidden>>
    /\ PureUnchanged

\* window.addEventListener('error', ...): schedules the restart.  The model
\* takes an error only while MaxTimers leaves a handle for its restart (and
\* for DOMContentLoaded, if still to come).
ErrorEvent ==
    /\ stage = "page"
    /\ pendingRestarts < MaxPendingRestarts
    /\ nextHandle + pendingRestarts + (IF loaded THEN 0 ELSE 1) <= MaxTimers
    /\ pendingRestarts' = pendingRestarts + 1
    /\ Becomes(Page)
    /\ UNCHANGED <<now, hidden, loaded>>
    /\ PureUnchanged

\* where the restart may throw: nowhere, at the first DOM write of
\* initializeCountdown (line 39), or at the first DOM write of the immediate
\* updateCountdown (line 107 or 136)
Faults == {"none", "initializeCountdown", "updateCountdown"}

\* a restart that initialises and does not start the countdown again
restartCountdownNoStart(P, date, t, fault) ==
    initializeCountdown([P EXCEPT !.calls = <<"restart">>], date)

\* the page the restart leaves, given the page after its initializeCountdown
\* and the page after the immediate updateCountdown
restartOutcome(P, initialized, ticked, t, fault) ==
    CASE fault = "none" -> startCountdown(initialized, t)
      [] fault = "initializeCountdown" ->
            [initialized EXCEPT
                !.targetYearText = P.targetYearText,
                !.currentYearText = P.currentYearText,
                !.calls = Append(@, "catch")]
      [] fault = "updateCountdown" ->
            [initialized EXCEPT
                !.intervals = IF ticked.tick.elapsed
                              THEN clearInterval(@, P.countdownInterval)
                              ELSE @,
                !.tick = ticked.tick,
                !.elapsedObserved = ticked.elapsedObserved,
                !.calls = @ \o <<"startCountdown", "updateCountdown",
                                 IF ticked.tick.elapsed
                                 THEN "showCelebration"
                                 ELSE "updateDisplay",
                                 "catch">>]

\* try { initializeCountdown(); startCountdown(); } catch (e) { ... }
restartCountdown(P, date, t, fault) ==
    Only({Only({restartOutcome(P, initialized, ticked, t, fault) :
                   ticked \in
                       {updateCountdown(
                            [initialized EXCEPT
                                !.calls = Append(@, "startCountdown")], t)}}) :
             initialized \in
                 {initializeCountdown([P EXCEPT !.calls = <<"restart">>],
                                      date)}})

\* the time-out of the error listener, 1000 ms after the error
RestartFire ==
    /\ stage = "page"
    /\ pendingRestarts > 0
    /\ pendingRestarts' = pendingRestarts - 1
    /\ \E t \in Later(now) :
          /\ now' = t
          /\ \E fault \in Faults :
                \E Q \in {restartCountdown(Page, now, t, fault)} : Becomes(Q)
    /\ UNCHANGED <<hidden, loaded>>
    /\ PureUnchanged

\* the time-out of one firework, 3000 ms after it was added
FireworkRemove ==
    /\ stage = "page"
    /\ fireworks > 0
    /\ Becomes([Page EXCEPT !.fireworks = @ - 1])
    /\ UNCHANGED <<now, hidden, loaded, pendingRestarts>>
    /\ PureUnchanged

\* time passes
ClockAdvance ==
    /\ stage = "page"
    /\ \E t \in Instants : Gt(t, now) /\ now' = t
    /\ Becomes(Page)
    /\ UNCHANGED <<hidden, loaded, pendingRestarts>>
    /\ PureUnchanged

Init ==
    /\ now \in Instants
    /\ hidden \in BOOLEAN
    /\ loaded = FALSE
    /\ pendingRestarts = 0
    /\ targetDate = FreshPage.targetDate
    /\ countdownInterval = FreshPage.countdownInterval
    /\ intervals = FreshPage.intervals
    /\ nextHandle = FreshPage.nextHandle
    /\ targetYearText = FreshPage.targetYearText
    /\ currentYearText = FreshPage.currentYearText
    /\ daysText = FreshPage.daysText
    /\ hoursText = FreshPage.hoursText
    /\ minutesText = FreshPage.minutesText
    /\ secondsText = FreshPage.secondsText
    /\ containerDisplay = FreshPage.containerDisplay
    /\ targetDateDisplay = FreshPage.targetDateDisplay
    /\ celebrationShow = FreshPage.celebrationShow
    /\ celebrationAnimation = FreshPage.celebrationAnimation
    /\ fireworks = FreshPage.fireworks
    /\ tick = NoTick
    /\ elapsedObserved = FALSE
    /\ celebrated = FALSE
    /\ calls = <<>>
    /\ stage = "page"
    /\ milliseconds = Ms(0, 0)
    /\ timeUnits = NoUnits

Next ==
    \/ DOMContentLoaded
    \/ IntervalFire
    \/ VisibilityChange
    \/ KeydownCtrlSpace
    \/ KeydownR
    \/ ErrorEvent
    \/ RestartFire
    \/ FireworkRemove
    \/ ClockAdvance

Spec == Init /\ [][Next]_vars

\* the restart time-out, once set, does run
FairSpec == Spec /\ WF_vars(RestartFire)

(***************************************************************************)
(* The pure functions on their own: calculateTimeUnits applied to a        *)
(* duration drawn from Durations, and updateDisplay applied to the result. *)
(***************************************************************************)
UnitBoundaries ==
    {60, 3600, 86400, 90061, 864000, 8640000, 17236800, 31536000, 31622400}

DurationSeconds ==
    (0..MaxSmallSeconds)
        \cup UNION {{b - 1, b, b + 1} : b \in UnitBoundaries}

Durations == {Ms(s, ms) : s \in DurationSeconds, ms \in {0, 1, 500, 999}}

UnitsInit ==
    /\ now = NewYearDate(FirstYear)
    /\ hidden = FALSE
    /\ loaded = FALSE
    /\ pendingRestarts = 0
    /\ targetDate = FreshPage.targetDate
    /\ countdownInterval = FreshPage.countdownInterval
    /\ intervals = FreshPage.intervals
    /\ nextHandle = FreshPage.nextHandle
    /\ targetYearText = FreshPage.targetYearText
    /\ currentYearText = FreshPage.currentYearText
    /\ daysText = FreshPage.daysText
    /\ hoursText = FreshPage.hoursText
    /\ minutesText = FreshPage.minutesText
    /\ secondsText = FreshPage.secondsText
    /\ containerDisplay = FreshPage.containerDisplay
    /\ targetDateDisplay = FreshPage.targetDateDisplay
    /\ celebrationShow = FreshPage.celebrationShow
    /\ celebrationAnimation = FreshPage.celebrationAnimation
    /\ fireworks = FreshPage.fireworks
    /\ tick = NoTick
    /\ elapsedObserved = FALSE
    /\ celebrated = FALSE
    /\ calls = <<>>
    /\ stage = "input"
    /\ milliseconds \in Durations
    /\ timeUnits = NoUnits

\* calculateTimeUnits(milliseconds)
Calculate ==
    /\ stage = "input"
    /\ timeUnits' = calculateTimeUnits(milliseconds)
    /\ stage' = "calculated"
    /\ Becomes(Page)
    /\ UNCHANGED <<now, hidden, loaded, pendingRestarts, milliseconds>>

\* updateDisplay(timeUnits)
Display ==
    /\ stage = "calculated"
    /\ Becomes(updateDisplay(Page, timeUnits))
    /\ stage' = "displayed"
    /\ UNCHANGED <<now, hidden, loaded, pendingRestarts, milliseconds,
                   timeUnits>>

UnitsNext ==
    \/ Calculate
    \/ Display

UnitsSpec == UnitsInit /\ [][UnitsNext]_vars

(***************************************************************************)
(* Properties.                                                             *)
(***************************************************************************)
\* the last step ran function f
Called(f) == \E i \in DOMAIN calls : calls[i] = f

\* C1: once showCelebration has run (from an elapsed tick or from Ctrl+Space),
\* no later updateCountdown call takes the counting branch unless
\* initializeCountdown has run in between.  Stated for a loaded page, whose
\* targetDate is set.
C1_ElapsedIsTerminal ==
    (loaded /\ tick.called /\ ~tick.target.nan /\ tick.afterCelebration)
        => tick.elapsed

\* C2: once a tick has observed remaining <= 0, no periodic timer remains
\* registered, so no timer invokes updateCountdown again.
C2_NoTimerAfterElapsed ==
    elapsedObserved => intervals = {}

\* what showCelebration touches: view mode, fireworks, animation, timers
Observable ==
    <<containerDisplay, targetDateDisplay, celebrationShow,
      celebrationAnimation, fireworks, intervals, countdownInterval>>

\* C3: showCelebration invoked while the celebration view is already shown is
\* a no-op: the observable state after the call equals the state before it.
\* Stated for a loaded page and a handler that does not go on to setInterval.
C3_ShowCelebrationIdempotent ==
    [][(loaded /\ celebrationShow /\ Called("showCelebration")'
            /\ ~Called("startCountdown")')
        => Observable' = Observable]_vars

\* C4: for a fixed target, after one updateCountdown call has taken the elapsed
\* branch, every later call with now >= target takes the elapsed branch too and
\* writes no countdown field.
C4_ElapsedStaysElapsed ==
    (tick.called /\ tick.afterElapsed /\ Geq(tick.now, tick.target))
        => (tick.elapsed /\ ~Called("updateDisplay"))

C4_Witness ==
    /\ tick.called
    /\ tick.afterElapsed
    /\ Geq(tick.now, tick.target)
    /\ tick.elapsed

\* C5: initializeCountdown, reading the clock at now, sets targetDate to
\* January 1, 00:00:00 of now's year + 1; that target is strictly after now, and
\* no New Year midnight lies strictly between now and the target.
C5_TargetIsNextNewYear ==
    [][Called("initializeCountdown")' =>
        /\ targetDate' = NewYearDate(getFullYear(now) + 1)
        /\ Gt(targetDate', now)
        /\ \A y \in CalendarYears :
              ~(Gt(NewYearDate(y), now) /\ Gt(targetDate', NewYearDate(y)))]_vars

C5_Witness ==
    /\ Called("initializeCountdown")
    /\ targetDate = NewYearDate(FirstYear + 1)
    /\ targetYearText = toString(FirstYear + 1)

\* C6: updateCountdown takes the elapsed branch (showCelebration, no countdown
\* field written) exactly when now >= target: at now = target, at 1 ms after
\* it, and not at 1 ms before it.
C6_ElapsedIffNotBefore ==
    tick.called =>
        /\ tick.elapsed <=> Geq(tick.now, tick.target)
        /\ tick.elapsed <=> Called("showCelebration")
        /\ tick.elapsed <=> ~Called("updateDisplay")
        /\ tick.now = tick.target => tick.elapsed
        /\ tick.now = Plus(tick.target, Ms(0, 1)) => tick.elapsed
        /\ Plus(tick.now, Ms(0, 1)) = tick.target => ~tick.elapsed

C6_Witness ==
    /\ tick.called
    /\ tick.now = tick.target
    /\ tick.elapsed
    /\ Called("showCelebration")

\* floor(d / (n * 1000)) for a duration d of whole milliseconds
FloorDivSeconds(d, n) == d.s \div n

\* C7: for every duration d >= 0, calculateTimeUnits(d) is days =
\* floor(d/86400000), hours = floor(d/3600000) mod 24, minutes =
\* floor(d/60000) mod 60, seconds = floor(d/1000) mod 60; d = 17236800000
\* gives 199 days, 12 hours, 0 minutes, 0 seconds.
C7_UnitsMatchReference ==
    stage # "input" =>
        /\ timeUnits =
              [nan |-> FALSE,
               days |-> FloorDivSeconds(milliseconds, 86400),
               hours |-> FloorDivSeconds(milliseconds, 3600) % 24,
               minutes |-> FloorDivSeconds(milliseconds, 60) % 60,
               seconds |-> FloorDivSeconds(milliseconds, 1) % 60]
        /\ milliseconds = Ms(17236800, 0) =>
              timeUnits =
                  [nan |-> FALSE, days |-> 199, hours |-> 12, minutes |-> 0,
                   seconds |-> 0]

C7_Witness ==
    /\ stage = "calculated"
    /\ milliseconds = Ms(17236800, 0)
    /\ timeUnits.days = 199
    /\ timeUnits.hours = 12

\* C8: round trip: days*86400000 + hours*3600000 + minutes*60000 +
\* seconds*1000 + (d mod 1000) = d for every duration d >= 0.
C8_RoundTrip ==
    stage # "input" =>
        Plus(Ms(timeUnits.days * 86400 + timeUnits.hours * 3600
                    + timeUnits.minutes * 60 + timeUnits.seconds, 0),
             Ms(0, milliseconds.ms)) = milliseconds

C8_Witness ==
    /\ stage = "calculated"
    /\ milliseconds = Ms(90061, 999)
    /\ timeUnits.days = 1
    /\ timeUnits.hours = 1
    /\ timeUnits.minutes = 1
    /\ timeUnits.seconds = 1

\* C9: every TimeUnits value updateCountdown passes to updateDisplay for a
\* remaining duration > 0 has hours in 0..23, minutes in 0..59, seconds in
\* 0..59 and days >= 0.
C9_UnitsInRange ==
    (tick.called /\ Called("updateDisplay") /\ ~tick.timeDifference.nan) =>
        /\ tick.timeUnits.days >= 0
        /\ tick.timeUnits.hours \in 0..23
        /\ tick.timeUnits.minutes \in 0..59
        /\ tick.timeUnits.seconds \in 0..59

C9_Witness ==
    /\ tick.called
    /\ Called("updateDisplay")
    /\ tick.timeDifference = Ms(17236800, 0)
    /\ tick.timeUnits.days = 199
    /\ tick.timeUnits.hours = 12

\* C10 as stated: updateDisplay writes hours, minutes and seconds zero-padded
\* to width 2 and days unpadded, as the plain decimal numeral.
C10_DaysUnpadded ==
    stage = "displayed" =>
        /\ daysText = toString(timeUnits.days)
        /\ Len(hoursText) = 2
        /\ Len(minutesText) = 2
        /\ Len(secondsText) = 2

\* the two decimal digits of n < 100
TwoDigits(n) == <<DigitChar[(n \div 10) + 1], DigitChar[(n % 10) + 1]>>

\* C10 amended: updateDisplay writes hours, minutes and seconds as exactly two
\* digits, and days zero-padded to width 2 as well: two digits below 100, the
\* plain numeral from 100 on.
C10_AllPadded ==
    stage = "displayed" =>
        /\ hoursText = TwoDigits(timeUnits.hours)
        /\ minutesText = TwoDigits(timeUnits.minutes)
        /\ secondsText = TwoDigits(timeUnits.seconds)
        /\ daysText =
              IF timeUnits.days < 100 THEN TwoDigits(timeUnits.days)
              ELSE toString(timeUnits.days)

C10_Witness ==
    /\ stage = "displayed"
    /\ timeUnits.days = 1
    /\ daysText = <<"0", "1">>
    /\ hoursText = <<"0", "1">>

\* the countdown layout (.countdown-container and .target-date) is displayed
CountdownVisible == containerDisplay # "none" /\ targetDateDisplay # "none"

\* the countdown layout is hidden
CountdownHidden == containerDisplay = "none" /\ targetDateDisplay = "none"

\* the celebration layout is displayed: the style sheet shows #celebration
\* only with the class "show"
CelebrationVisible == celebrationShow

\* C11: in every reachable state exactly one of the countdown layout and the
\* celebration layout is visible, never both and never neither.
C11_ViewsExclusive ==
    \/ CountdownVisible /\ ~CelebrationVisible
    \/ CountdownHidden /\ CelebrationVisible

C11_Witness ==
    /\ Called("restart")
    /\ Called("setInterval")
    /\ CountdownHidden
    /\ CelebrationVisible
    /\ ~tick.elapsed

CallCount(f) == Cardinality({i \in DOMAIN calls : calls[i] = f})

\* the text of a field holding n: two digits below 100, the numeral above
FieldText(n) == IF n < 100 THEN TwoDigits(n) ELSE toString(n)

\* the four fields show the decomposition of remaining (NaN for NaN)
ShowsRemaining(remaining) ==
    IF remaining.nan
    THEN /\ daysText = NaNText
         /\ hoursText = NaNText
         /\ minutesText = NaNText
         /\ secondsText = NaNText
    ELSE /\ daysText = FieldText(FloorDivSeconds(remaining, 86400))
         /\ hoursText = FieldText(FloorDivSeconds(remaining, 3600) % 24)
         /\ minutesText = FieldText(FloorDivSeconds(remaining, 60) % 60)
         /\ secondsText = FieldText(FloorDivSeconds(remaining, 1) % 60)

\* C13: when the page becomes visible, the visibilitychange handler invokes
\* updateCountdown exactly once, reading the clock then, so that right after it
\* the fields show the decomposition of target - now or the elapsed transition
\* has been taken; when the page becomes hidden, the handler invokes no tick.
C13_VisibleRefreshes ==
    [][/\ (hidden /\ ~hidden') =>
            (/\ CallCount("updateCountdown") = 1
             /\ tick.called
             /\ tick.now = now
             /\ tick.target = targetDate
             /\ IF Geq(now, targetDate)
                THEN Called("showCelebration") /\ celebrationShow
                ELSE ShowsRemaining(Minus(targetDate, now)))'
       /\ (~hidden /\ hidden') =>
            /\ ~tick'.called
            /\ calls' = <<>>
            /\ UNCHANGED <<daysText, hoursText, minutesText, secondsText,
                           celebrationShow, fireworks>>]_vars

C13_Witness ==
    /\ Called("visibilitychange")
    /\ ~hidden
    /\ CallCount("updateCountdown") = 1
    /\ tick.timeDifference = Ms(17236800, 0)
    /\ daysText = <<"1", "9", "9">>
    /\ hoursText = <<"1", "2">>
    /\ minutesText = <<"0", "0">>

\* the place of the first call of f in the last step (0 if none)
FirstCall(f) ==
    IF Called(f) THEN CHOOSE i \in DOMAIN calls :
                          /\ calls[i] = f
                          /\ \A j \in 1..(i - 1) : calls[j] # f
    ELSE 0

\* the last step ran f and then g
CalledInOrder(f, g) == Called(f) /\ Called(g) /\ FirstCall(f) < FirstCall(g)

\* what a run of the restart time-out does: it takes one pending restart and
\* schedules none; it runs initializeCountdown and then startCountdown, which
\* leaves a newly registered periodic timer held in countdownInterval; or it
\* throws, the fault is caught, and no timer is added
RestartStep ==
    Called("restart")' =>
        /\ pendingRestarts' = pendingRestarts - 1
        /\ IF Called("catch")'
           THEN /\ ~Called("setInterval")'
                /\ intervals' \subseteq intervals
           ELSE /\ CalledInOrder("initializeCountdown", "startCountdown")'
                /\ CalledInOrder("startCountdown", "setInterval")'
                /\ countdownInterval' \in intervals'
                /\ countdownInterval' \notin intervals
                /\ targetDate' = NewYearDate(getFullYear(now) + 1)

\* an error event has been delivered and its restart time-out has not run
ErrorDelivered == pendingRestarts > 0 /\ ~Called("restart")

\* C14: every error event delivered to the error listener is eventually followed
\* by a run of the restart time-out (unless the page is reloaded first), which
\* runs initializeCountdown and then startCountdown and leaves a periodic timer
\* running; a restart that throws is caught and attempts no further restart.
C14_SupervisoryRestart ==
    /\ [][RestartStep]_vars
    /\ ErrorDelivered ~> (Called("restart") \/ Called("location.reload"))

C14_Witness ==
    /\ Called("restart")
    /\ ~Called("catch")
    /\ CalledInOrder("initializeCountdown", "startCountdown")
    /\ countdownInterval \in intervals
    /\ pendingRestarts = 0
    /\ loaded

\* C15: where the last step ran initializeCountdown and a tick, the
\* initialisation came first; a startCountdown that ran to its end invoked
\* updateCountdown exactly once and then registered the periodic timer; and no
\* tick has read an unset targetDate.
C15_StartupOrdering ==
    /\ (Called("initializeCountdown") /\ Called("updateCountdown")) =>
          CalledInOrder("initializeCountdown", "updateCountdown")
    /\ (Called("startCountdown") /\ ~Called("catch")) =>
          /\ CallCount("updateCountdown") = 1
          /\ CalledInOrder("startCountdown", "updateCountdown")
          /\ CalledInOrder("updateCountdown", "setInterval")
    /\ tick.called => ~tick.target.nan

\* C16: at most one periodic timer is registered, and a registered timer's
\* handle is the value held in countdownInterval.
C16_SingleTimer ==
    /\ Cardinality(intervals) <= 1
    /\ intervals \subseteq {countdownInterval}

\* C17: within the lifetime of a page (location.reload() ends it), a step
\* changes targetDate only if it ran initializeCountdown; and a tick of a step
\* that did not run initializeCountdown computes its remaining duration against
\* the target the previous step left.
C17_TargetWrittenOnlyByInitialize ==
    [][~Called("location.reload")' =>
          /\ (targetDate' # targetDate) => Called("initializeCountdown")'
          /\ (tick'.called /\ ~Called("initializeCountdown")') =>
                /\ tick'.target = targetDate
                /\ tick'.timeDifference = Minus(targetDate, tick'.now)]_vars

C17_Witness ==
    /\ loaded
    /\ tick.called
    /\ tick.afterElapsed
    /\ ~Called("initializeCountdown")
    /\ Called("showCelebration")
    /\ tick.target = targetDate
    /\ ~targetDate.nan

=============================================================================
